---------------------------- MODULE Spec2Model ----------------------------
(***************************************************************************)
(* Model of the client ticket cache of gokrb5 (v8/client/cache.go):        *)
(* the composite key, the Cache store with its RWMutex, and the            *)
(* GetCachedTicket / renewTicket resolution path.                          *)
(*                                                                         *)
(* Strings are sequences of byte values.  A PrincipalName is the sequence  *)
(* of its NameString components.  Times are naturals; 0 is the zero time.  *)
(***************************************************************************)
EXTENDS Naturals, Sequences, FiniteSets, TLC

VARIABLES
    Entries,   \* Cache.Entries : map from key string to CacheEntry
    readers,   \* Cache.mux : set of callers holding the read lock
    writer,    \* Cache.mux : the caller holding the write lock, or NoProc
    now,       \* the system clock read by time.Now()
    proc,      \* per caller: the running operation, its position and locals
    hist,      \* history: per (cname, spn) string pair, the arguments of the
               \* latest addEntry not followed by a removal or clear
    enc        \* inputs and outputs of the key() computation under study

vars == <<Entries, readers, writer, now, proc, hist, enc>>

-----------------------------------------------------------------------------
(* Bounds *)

\* largest clock value and largest timestamp of an entry
MaxTime == 2
\* largest total length of the two strings handed to key()
MaxKeyLen == 3

-----------------------------------------------------------------------------
(* base64.StdEncoding and key() *)

\* ':' the separator written by key()
Colon == 58
\* '=' the padding character of base64.StdEncoding
StdPadding == 61
\* '/' joins the components of a principal name
Slash == 47

\* the character of the standard base64 alphabet at index i (0..63)
B64Char(i) ==
    IF i < 26 THEN 65 + i
    ELSE IF i < 52 THEN 97 + (i - 26)
    ELSE IF i < 62 THEN 48 + (i - 52)
    ELSE IF i = 62 THEN 43
    ELSE 47

RECURSIVE EncodeToString(_)
\* base64.StdEncoding.EncodeToString: 3 bytes -> 4 characters, '=' padded
EncodeToString(s) ==
    IF Len(s) = 0 THEN <<>>
    ELSE IF Len(s) = 1 THEN
        << B64Char(s[1] \div 4), B64Char((s[1] % 4) * 16),
           StdPadding, StdPadding >>
    ELSE IF Len(s) = 2 THEN
        << B64Char(s[1] \div 4),
           B64Char((s[1] % 4) * 16 + (s[2] \div 16)),
           B64Char((s[2] % 16) * 4),
           StdPadding >>
    ELSE
        << B64Char(s[1] \div 4),
           B64Char((s[1] % 4) * 16 + (s[2] \div 16)),
           B64Char((s[2] % 16) * 4 + (s[3] \div 64)),
           B64Char(s[3] % 64) >>
        \o EncodeToString(SubSeq(s, 4, Len(s)))

\* a plausible slip: the raw strings joined by the separator, not encoded
keyRaw(cname, spn) == cname \o <<Colon>> \o spn

\* key(cname, spn): both parts base64-encoded, joined by ':'
key(cname, spn) == EncodeToString(cname) \o <<Colon>> \o EncodeToString(spn)

RECURSIVE Join(_, _)
Join(parts, sep) ==
    IF Len(parts) = 0 THEN <<>>
    ELSE IF Len(parts) = 1 THEN parts[1]
    ELSE parts[1] \o <<sep>> \o Join(Tail(parts), sep)

\* types.PrincipalName.PrincipalNameString: the components joined by '/'
PrincipalNameString(pn) == Join(pn, Slash)


-----------------------------------------------------------------------------
(* Values *)

Procs == {"p1", "p2"}
NoProc == "none"
\* the caller that runs in the sequential specification
Main == "p1"

\* the zero time.Time
ZeroTime == 0
Times == 0..MaxTime

\* principal names used by the callers: client "A"; services "H" and "H/S"
ClientNames == { << <<65>> >> }
ServiceNames == { << <<72>> >>, << <<72>>, <<83>> >> }
Realm == <<82>>

CNameStrings == { PrincipalNameString(c) : c \in ClientNames }
SPNStrings == { PrincipalNameString(s) : s \in ServiceNames }
Pairs == CNameStrings \X SPNStrings

\* opaque payloads of tickets and session keys
EncParts == {"tktA", "tktB"}
KeyValues == {"keyA", "keyB"}

\* messages.Ticket, as far as the cache reads it
Tickets == [SName : ServiceNames, Realm : {Realm}, EncPart : EncParts]
ZeroTicket == [SName |-> <<>>, Realm |-> <<>>, EncPart |-> ""]
ZeroKey == ""

\* the zero CacheEntry (var e CacheEntry; a failed map lookup)
ZeroEntry ==
    [CName |-> <<>>, SPN |-> <<>>, Ticket |-> ZeroTicket,
     AuthTime |-> ZeroTime, StartTime |-> ZeroTime, EndTime |-> ZeroTime,
     RenewTill |-> ZeroTime, SessionKey |-> ZeroKey]

\* the arguments of one addEntry call
AddArgs(cnames, tkts, auths, starts, ends, renews, keys) ==
    [cname : cnames, tkt : tkts, authTime : auths, startTime : starts,
     endTime : ends, renewTill : renews, sessionKey : keys]
ZeroArgs ==
    [cname |-> <<>>, tkt |-> ZeroTicket, authTime |-> ZeroTime,
     startTime |-> ZeroTime, endTime |-> ZeroTime, renewTill |-> ZeroTime,
     sessionKey |-> ZeroKey]

\* errors: nil, the errors the exchange may return, and renewTicket's own
Nil == "nil"
ExchangeErrors == {"KRBError", "network error"}
ErrNotAdded == "ticket was not added to cache"

\* what GetCachedTicket returns
Result(tkt, sk, usable) == [Ticket |-> tkt, SessionKey |-> sk, usable |-> usable]
\* var tkt messages.Ticket; var key types.EncryptionKey; return tkt, key, false
NotUsable == Result(ZeroTicket, ZeroKey, FALSE)

\* the empty map of NewCache
NoEntries == [x \in {} |-> ZeroEntry]

\* a caller that runs no operation; beside the locals of the operations it
\* records the clock values time.Now() returned (reads), the clock at the
\* return (tRet), the number of exchange calls (nExch), what the exchange
\* returned and stored (exErr, wrote), the map a writer or JSON found (m0) and
\* the order in which JSON's range loop met the keys (order); removed records
\* that the entry of the caller's pair was deleted after its exchange returned
\* and before its re-read
IdleProc ==
    [op |-> "idle", pc |-> "idle", cname |-> <<>>, spn |-> <<>>,
     arg |-> ZeroArgs, k |-> <<>>, e |-> ZeroEntry, ok |-> FALSE,
     re |-> ZeroEntry, rok |-> FALSE, exErr |-> Nil, err |-> Nil,
     ret |-> NotUsable,
     nExch |-> 0, reads |-> <<>>, tRet |-> ZeroTime, wrote |-> <<>>,
     m0 |-> NoEntries, order |-> <<>>, keys |-> <<>>, out |-> <<>>,
     removed |-> FALSE]

-----------------------------------------------------------------------------
(* Cache: the map operations, as done while the lock is held *)

\* e, ok := c.Entries[k]
Lookup(m, k) == IF k \in DOMAIN m THEN <<m[k], TRUE>> ELSE <<ZeroEntry, FALSE>>

\* the CacheEntry literal of addEntry
NewEntry(a) ==
    [CName |-> a.cname,
     SPN |-> PrincipalNameString(a.tkt.SName),
     Ticket |-> a.tkt,
     AuthTime |-> a.authTime,
     StartTime |-> a.startTime,
     EndTime |-> a.endTime,
     RenewTill |-> a.renewTill,
     SessionKey |-> a.sessionKey]

\* slip: the two names are passed to key() in the other order
addKeySwapped(a) == key(PrincipalNameString(a.tkt.SName), PrincipalNameString(a.cname))

\* k := key(cname.PrincipalNameString(), spn) in addEntry
addKey(a) == key(PrincipalNameString(a.cname), PrincipalNameString(a.tkt.SName))

\* slip: an existing entry is kept
MapPutIfAbsent(m, k, v) ==
    [x \in DOMAIN m \cup {k} |-> IF x \in DOMAIN m THEN m[x] ELSE v]

\* c.Entries[k] = v
MapPut(m, k, v) == [x \in DOMAIN m \cup {k} |-> IF x = k THEN v ELSE m[x]]

\* slip: every entry is deleted
MapDeleteAll(m, k) == NoEntries

\* delete(c.Entries, k)
MapDelete(m, k) == [x \in DOMAIN m \ {k} |-> m[x]]

\* pr with the callers marked that wait for the re-read of the deleted key k
MarkRemoved(pr, k) ==
    [q \in DOMAIN pr |->
        IF pr[q].pc = "rn_rlock" /\ key(pr[q].cname, pr[q].spn) = k
        THEN [pr[q] EXCEPT !.removed = TRUE] ELSE pr[q]]

\* slip: a reader does not wait for the writer
CanRLockAlways == TRUE

\* c.mux.RLock() / c.mux.Lock() can be taken
CanRLock == writer = NoProc
CanLock == writer = NoProc /\ readers = {}

\* history of the pair named by the arguments of an addEntry
PairOf(a) == <<PrincipalNameString(a.cname), PrincipalNameString(a.tkt.SName)>>
HistPut(h, pr, a) == [x \in DOMAIN h \cup {pr} |-> IF x = pr THEN <<a>> ELSE h[x]]
HistDel(h, pr) == [x \in DOMAIN h |-> IF x = pr THEN <<>> ELSE h[x]]

-----------------------------------------------------------------------------
(* Cache.getEntry *)

CallGetEntry(p, cname, spn) ==
    /\ proc[p].pc = "idle"
    /\ proc' = [proc EXCEPT ![p] = [IdleProc EXCEPT
                   !.op = "getEntry", !.pc = "get_rlock",
                   !.cname = cname, !.spn = spn]]
    /\ UNCHANGED <<Entries, readers, writer, now, hist, enc>>

\* c.mux.RLock()
GetEntryRLock(p) ==
    /\ proc[p].pc = "get_rlock"
    /\ CanRLock
    /\ readers' = readers \cup {p}
    /\ proc' = [proc EXCEPT ![p].pc = "get_read"]
    /\ UNCHANGED <<Entries, writer, now, hist, enc>>

\* e, ok := c.Entries[key(cname, spn)]; return e, ok (RUnlock deferred)
GetEntryRead(p) ==
    /\ proc[p].pc = "get_read"
    /\ LET r == Lookup(Entries, key(proc[p].cname, proc[p].spn))
       IN proc' = [proc EXCEPT ![p].e = r[1], ![p].ok = r[2], ![p].pc = "done"]
    /\ readers' = readers \ {p}
    /\ UNCHANGED <<Entries, writer, now, hist, enc>>

-----------------------------------------------------------------------------
(* Cache.JSON *)

\* Go's string comparison a < b: bytewise, a proper prefix comes first
RECURSIVE StrLess(_, _)
StrLess(a, b) ==
    IF Len(b) = 0 THEN FALSE
    ELSE IF Len(a) = 0 THEN TRUE
    ELSE IF a[1] # b[1] THEN a[1] < b[1]
    ELSE StrLess(Tail(a), Tail(b))

\* x put into the ascending sequence s
RECURSIVE Insert(_, _)
Insert(x, s) ==
    IF Len(s) = 0 THEN <<x>>
    ELSE IF StrLess(s[1], x) THEN <<s[1]>> \o Insert(x, Tail(s))
    ELSE <<x>> \o s

\* slip: the keys are left in the order of the range loop
SortStringsNone(ks) == ks

\* sort.Strings(keys)
RECURSIVE SortStrings(_)
SortStrings(ks) ==
    IF Len(ks) = 0 THEN <<>> ELSE Insert(ks[1], SortStrings(Tail(ks)))

\* slip: the fields tagged json:"-" are written as well
MarshalAll(e) == e

\* json.MarshalIndent of one CacheEntry: Ticket and SessionKey are json:"-"
Marshal(e) ==
    [CName |-> e.CName, SPN |-> e.SPN, AuthTime |-> e.AuthTime,
     StartTime |-> e.StartTime, EndTime |-> e.EndTime,
     RenewTill |-> e.RenewTill]

\* the orders in which a range loop may meet the keys of m
RangeOrders(m) ==
    { o \in [1..Cardinality(DOMAIN m) -> DOMAIN m] :
        \A i, j \in 1..Cardinality(DOMAIN m) : o[i] = o[j] => i = j }

CallJSON(p) ==
    /\ proc[p].pc = "idle"
    /\ proc' = [proc EXCEPT ![p] = [IdleProc EXCEPT
                   !.op = "JSON", !.pc = "json_rlock"]]
    /\ UNCHANGED <<Entries, readers, writer, now, hist, enc>>

\* c.mux.RLock()
JSONRLock(p) ==
    /\ proc[p].pc = "json_rlock"
    /\ CanRLock
    /\ readers' = readers \cup {p}
    /\ proc' = [proc EXCEPT ![p].pc = "json_range"]
    /\ UNCHANGED <<Entries, writer, now, hist, enc>>

\* for k := range c.Entries { keys = append(keys, k) }
JSONRange(p, o) ==
    /\ proc[p].pc = "json_range"
    /\ o \in RangeOrders(Entries)
    /\ proc' = [proc EXCEPT ![p].order = o, ![p].keys = o, ![p].pc = "json_sort"]
    /\ UNCHANGED <<Entries, readers, writer, now, hist, enc>>

\* sort.Strings(keys); es = append(es, c.Entries[k]) for each key;
\* json.MarshalIndent(&es, ...); return (RUnlock deferred)
JSONMarshal(p) ==
    /\ proc[p].pc = "json_sort"
    /\ LET ks == SortStrings(proc[p].keys)
       IN proc' = [proc EXCEPT
                     ![p].keys = ks,
                     ![p].out = [i \in 1..Len(ks) |-> Marshal(Entries[ks[i]])],
                     ![p].m0 = Entries,
                     ![p].pc = "done"]
    /\ readers' = readers \ {p}
    /\ UNCHANGED <<Entries, writer, now, hist, enc>>

-----------------------------------------------------------------------------
(* Cache.addEntry *)

\* spn and k are computed before the lock is taken
CallAddEntry(p, a) ==
    /\ proc[p].pc = "idle"
    /\ proc' = [proc EXCEPT ![p] = [IdleProc EXCEPT
                   !.op = "addEntry", !.pc = "add_lock",
                   !.arg = a, !.k = addKey(a)]]
    /\ UNCHANGED <<Entries, readers, writer, now, hist, enc>>

\* c.mux.Lock()
AddEntryLock(p) ==
    /\ proc[p].pc = "add_lock"
    /\ CanLock
    /\ writer' = p
    /\ proc' = [proc EXCEPT ![p].pc = "add_write"]
    /\ UNCHANGED <<Entries, readers, now, hist, enc>>

\* c.Entries[k] = CacheEntry{...}; return c.Entries[k] (Unlock deferred)
AddEntryWrite(p) ==
    /\ proc[p].pc = "add_write"
    /\ Entries' = MapPut(Entries, proc[p].k, NewEntry(proc[p].arg))
    /\ proc' = [proc EXCEPT ![p].e = Entries'[proc[p].k], ![p].pc = "done",
                            ![p].m0 = Entries]
    /\ hist' = HistPut(hist, PairOf(proc[p].arg), proc[p].arg)
    /\ writer' = NoProc
    /\ UNCHANGED <<readers, now, enc>>

-----------------------------------------------------------------------------
(* Cache.RemoveEntry *)

CallRemoveEntry(p, cname, spn) ==
    /\ proc[p].pc = "idle"
    /\ proc' = [proc EXCEPT ![p] = [IdleProc EXCEPT
                   !.op = "RemoveEntry", !.pc = "rm_lock",
                   !.cname = cname, !.spn = spn]]
    /\ UNCHANGED <<Entries, readers, writer, now, hist, enc>>

RemoveEntryLock(p) ==
    /\ proc[p].pc = "rm_lock"
    /\ CanLock
    /\ writer' = p
    /\ proc' = [proc EXCEPT ![p].pc = "rm_delete"]
    /\ UNCHANGED <<Entries, readers, now, hist, enc>>

\* delete(c.Entries, key(cname, spn)) (Unlock deferred)
RemoveEntryDelete(p) ==
    /\ proc[p].pc = "rm_delete"
    /\ Entries' = MapDelete(Entries, key(proc[p].cname, proc[p].spn))
    /\ hist' = HistDel(hist, <<proc[p].cname, proc[p].spn>>)
    /\ proc' = [MarkRemoved(proc, key(proc[p].cname, proc[p].spn))
                   EXCEPT ![p].pc = "done", ![p].m0 = Entries]
    /\ writer' = NoProc
    /\ UNCHANGED <<readers, now, enc>>

-----------------------------------------------------------------------------
(* Cache.clear *)

CallClear(p) ==
    /\ proc[p].pc = "idle"
    /\ proc' = [proc EXCEPT ![p] = [IdleProc EXCEPT
                   !.op = "clear", !.pc = "clr_lock"]]
    /\ UNCHANGED <<Entries, readers, writer, now, hist, enc>>

ClearLock(p) ==
    /\ proc[p].pc = "clr_lock"
    /\ CanLock
    /\ writer' = p
    /\ proc' = [proc EXCEPT ![p].pc = "clr_delete", ![p].m0 = Entries]
    /\ UNCHANGED <<Entries, readers, now, hist, enc>>

\* for k := range c.Entries { delete(c.Entries, k) }: one turn of the loop
ClearDelete(p, k) ==
    /\ proc[p].pc = "clr_delete"
    /\ k \in DOMAIN Entries
    /\ Entries' = MapDelete(Entries, k)
    /\ hist' = HistDel(hist, <<PrincipalNameString(Entries[k].CName), Entries[k].SPN>>)
    /\ proc' = MarkRemoved(proc, k)
    /\ UNCHANGED <<readers, writer, now, enc>>

\* the loop is over: return (Unlock deferred)
ClearReturn(p) ==
    /\ proc[p].pc = "clr_delete"
    /\ DOMAIN Entries = {}
    /\ proc' = [proc EXCEPT ![p].pc = "done"]
    /\ writer' = NoProc
    /\ UNCHANGED <<Entries, readers, now, hist, enc>>

-----------------------------------------------------------------------------
(* Client.GetCachedTicket and Client.renewTicket *)

\* slips of the comparisons: the operands swapped; the bound included
AfterSwapped(t, u) == t < u
BeforeOrEqual(t, u) == t <= u

\* time.Time.After
After(t, u) == t > u
\* time.Time.Before
Before(t, u) == t < u

\* return e.Ticket, e.SessionKey, true
Usable(e) == Result(e.Ticket, e.SessionKey, TRUE)

\* slip: the missing entry is not reported
renewTicketErrNil(ok) == Nil

\* slip: the test of the second lookup is inverted
renewTicketErrFound(ok) == IF ok THEN ErrNotAdded ELSE Nil

\* renewTicket after the second lookup: (e, error)
renewTicketErr(ok) == IF ~ok THEN ErrNotAdded ELSE Nil

\* slip: the zero values are returned when the renewal failed
AfterRenewZero(e, err) ==
    IF err # Nil THEN Result(ZeroTicket, ZeroKey, FALSE)
    ELSE Result(e.Ticket, e.SessionKey, TRUE)

\* GetCachedTicket after e, err := cl.renewTicket(e)
AfterRenew(e, err) ==
    IF err # Nil THEN Result(e.Ticket, e.SessionKey, FALSE)
    ELSE Result(e.Ticket, e.SessionKey, TRUE)

\* the operation returns r at the current clock value
Returns(p, r) == [proc[p] EXCEPT !.ret = r, !.pc = "done", !.tRet = now]

CallGetCachedTicket(p, cname, spn) ==
    /\ proc[p].pc = "idle"
    /\ proc' = [proc EXCEPT ![p] = [IdleProc EXCEPT
                   !.op = "GetCachedTicket", !.pc = "gct_rlock",
                   !.cname = cname, !.spn = spn]]
    /\ UNCHANGED <<Entries, readers, writer, now, hist, enc>>

\* cl.cache.getEntry(cname, spn): c.mux.RLock()
GetCachedTicketRLock(p) ==
    /\ proc[p].pc = "gct_rlock"
    /\ CanRLock
    /\ readers' = readers \cup {p}
    /\ proc' = [proc EXCEPT ![p].pc = "gct_read"]
    /\ UNCHANGED <<Entries, writer, now, hist, enc>>

\* if e, ok := cl.cache.getEntry(cname, spn); ok { ... }; not ok: zero result
\* slip: the read lock of the lookup is kept until GetCachedTicket returns
GetCachedTicketReadHold(p) ==
    /\ proc[p].pc = "gct_read"
    /\ LET r == Lookup(Entries, key(proc[p].cname, proc[p].spn))
           q == [proc[p] EXCEPT !.e = r[1], !.ok = r[2], !.pc = "gct_after"]
       IN proc' = [proc EXCEPT ![p] =
                     IF r[2] THEN q
                     ELSE [q EXCEPT !.ret = NotUsable, !.pc = "done", !.tRet = now]]
    /\ UNCHANGED <<Entries, readers, writer, now, hist, enc>>

GetCachedTicketRead(p) ==
    /\ proc[p].pc = "gct_read"
    /\ LET r == Lookup(Entries, key(proc[p].cname, proc[p].spn))
           q == [proc[p] EXCEPT !.e = r[1], !.ok = r[2], !.pc = "gct_after"]
       IN proc' = [proc EXCEPT ![p] =
                     IF r[2] THEN q
                     ELSE [q EXCEPT !.ret = NotUsable, !.pc = "done", !.tRet = now]]
    /\ readers' = readers \ {p}
    /\ UNCHANGED <<Entries, writer, now, hist, enc>>

\* time.Now().UTC().After(e.StartTime)
GetCachedTicketAfter(p) ==
    /\ proc[p].pc = "gct_after"
    /\ proc' = [proc EXCEPT
                 ![p].reads = Append(@, now),
                 ![p].pc = IF After(now, proc[p].e.StartTime)
                           THEN "gct_before" ELSE "gct_renewable"]
    /\ UNCHANGED <<Entries, readers, writer, now, hist, enc>>

\* && time.Now().UTC().Before(e.EndTime): return the cached ticket
GetCachedTicketBefore(p) ==
    /\ proc[p].pc = "gct_before"
    /\ LET q == [proc[p] EXCEPT !.reads = Append(@, now), !.pc = "gct_renewable"]
       IN proc' = [proc EXCEPT ![p] =
                     IF Before(now, proc[p].e.EndTime)
                     THEN [q EXCEPT !.ret = Usable(proc[p].e), !.pc = "done",
                                    !.tRet = now]
                     ELSE q]
    /\ UNCHANGED <<Entries, readers, writer, now, hist, enc>>

\* slip: an entry found past its RenewTill is deleted from the map
GetCachedTicketRenewableEvict(p) ==
    /\ proc[p].pc = "gct_renewable"
    /\ LET q == [proc[p] EXCEPT !.reads = Append(@, now)]
       IN proc' = [proc EXCEPT ![p] =
                     IF Before(now, proc[p].e.RenewTill)
                     THEN [q EXCEPT !.re = proc[p].e, !.pc = "rn_exchange"]
                     ELSE [q EXCEPT !.ret = NotUsable, !.pc = "done", !.tRet = now]]
    /\ Entries' = IF Before(now, proc[p].e.RenewTill) THEN Entries
                  ELSE MapDelete(Entries, key(proc[p].cname, proc[p].spn))
    /\ UNCHANGED <<readers, writer, now, hist, enc>>

\* else if time.Now().UTC().Before(e.RenewTill): renewTicket(e), else zero result
GetCachedTicketRenewable(p) ==
    /\ proc[p].pc = "gct_renewable"
    /\ LET q == [proc[p] EXCEPT !.reads = Append(@, now)]
       IN proc' = [proc EXCEPT ![p] =
                     IF Before(now, proc[p].e.RenewTill)
                     THEN [q EXCEPT !.re = proc[p].e, !.pc = "rn_exchange"]
                     ELSE [q EXCEPT !.ret = NotUsable, !.pc = "done", !.tRet = now]]
    /\ UNCHANGED <<Entries, readers, writer, now, hist, enc>>

\* slip: the exchange is called with the read lock of the cache held
RenewExchangeLocked(p) ==
    /\ proc[p].pc = "rn_exchange"
    /\ CanRLock
    /\ readers' = readers \cup {p}
    /\ proc' = [proc EXCEPT ![p].nExch = @ + 1, ![p].pc = "ex_run"]
    /\ UNCHANGED <<Entries, writer, now, hist, enc>>

\* slip: a caller that finds a renewal of its pair in flight makes no exchange
\* call of its own and goes on to the re-read
RenewExchangeJoin(p) ==
    /\ proc[p].pc = "rn_exchange"
    /\ proc' = [proc EXCEPT ![p] =
                 IF \E q \in Procs \ {p} :
                        /\ proc[q].pc \in {"ex_run", "ex_write"}
                        /\ proc[q].cname = proc[p].cname
                        /\ proc[q].spn = proc[p].spn
                 THEN [proc[p] EXCEPT !.pc = "rn_rlock"]
                 ELSE [proc[p] EXCEPT !.nExch = @ + 1, !.pc = "ex_run"]]
    /\ UNCHANGED <<Entries, readers, writer, now, hist, enc>>

\* renewTicket: cl.TGSREQGenerateAndExchange(spn, realm, e.Ticket, e.SessionKey, true)
RenewExchange(p) ==
    /\ proc[p].pc = "rn_exchange"
    /\ proc' = [proc EXCEPT ![p].nExch = @ + 1, ![p].pc = "ex_run"]
    /\ UNCHANGED <<Entries, readers, writer, now, hist, enc>>

\* the exchange returns an error: renewTicket returns e, err
ExchangeFail(p, err) ==
    /\ proc[p].pc = "ex_run"
    /\ proc' = [proc EXCEPT ![p] =
                 [Returns(p, AfterRenew(proc[p].re, err)) EXCEPT
                     !.exErr = err, !.err = err]]
    /\ UNCHANGED <<Entries, readers, writer, now, hist, enc>>

\* the exchange got a reply and stores it: addEntry takes the write lock
ExchangeLock(p) ==
    /\ proc[p].pc = "ex_run"
    /\ CanLock
    /\ writer' = p
    /\ proc' = [proc EXCEPT ![p].pc = "ex_write"]
    /\ UNCHANGED <<Entries, readers, now, hist, enc>>

\* the exchange's addEntry of the reply a; the exchange then returns nil
ExchangeWrite(p, a) ==
    /\ proc[p].pc = "ex_write"
    /\ Entries' = MapPut(Entries, addKey(a), NewEntry(a))
    /\ hist' = HistPut(hist, PairOf(a), a)
    /\ proc' = [proc EXCEPT ![p].wrote = <<a>>, ![p].pc = "rn_rlock"]
    /\ writer' = NoProc
    /\ UNCHANGED <<readers, now, enc>>

\* the exchange returns nil without having stored an entry
ExchangeNoWrite(p) ==
    /\ proc[p].pc = "ex_run"
    /\ proc' = [proc EXCEPT ![p].pc = "rn_rlock"]
    /\ UNCHANGED <<Entries, readers, writer, now, hist, enc>>

\* renewTicket: cl.cache.getEntry(...): c.mux.RLock()
RenewRLock(p) ==
    /\ proc[p].pc = "rn_rlock"
    /\ CanRLock
    /\ readers' = readers \cup {p}
    /\ proc' = [proc EXCEPT ![p].pc = "rn_read"]
    /\ UNCHANGED <<Entries, writer, now, hist, enc>>

\* slip: renewTicket returns the entry it was given, without the second lookup
RenewReadStale(p) ==
    /\ proc[p].pc = "rn_read"
    /\ proc' = [proc EXCEPT ![p] =
                 [Returns(p, AfterRenew(proc[p].re, Nil)) EXCEPT !.rok = TRUE]]
    /\ readers' = readers \ {p}
    /\ UNCHANGED <<Entries, writer, now, hist, enc>>

\* e, ok := cl.cache.getEntry(e.CName.PrincipalNameString(),
\*                            e.Ticket.SName.PrincipalNameString())
\* renewTicket returns (e, err); GetCachedTicket returns on it
RenewRead(p) ==
    /\ proc[p].pc = "rn_read"
    /\ LET r == Lookup(Entries, key(PrincipalNameString(proc[p].re.CName),
                                    PrincipalNameString(proc[p].re.Ticket.SName)))
           err == renewTicketErr(r[2])
       IN proc' = [proc EXCEPT ![p] =
                     [Returns(p, AfterRenew(r[1], err)) EXCEPT
                         !.re = r[1], !.rok = r[2], !.err = err]]
    /\ readers' = readers \ {p}
    /\ UNCHANGED <<Entries, writer, now, hist, enc>>

-----------------------------------------------------------------------------
(* The environment *)

\* the caller takes the result and is free for the next call
Return(p) ==
    /\ proc[p].pc = "done"
    /\ proc' = [proc EXCEPT ![p] = IdleProc]
    /\ UNCHANGED <<Entries, readers, writer, now, hist, enc>>

\* the system clock advances; only GetCachedTicket reads it, so the steps are
\* taken between operations and during a GetCachedTicket call
Tick ==
    /\ now < MaxTime
    /\ \A p \in Procs : /\ proc[p].op \in {"idle", "GetCachedTicket"}
                        /\ proc[p].pc # "done"
    /\ now' = now + 1
    /\ UNCHANGED <<Entries, readers, writer, proc, hist, enc>>

-----------------------------------------------------------------------------
(* Inputs *)

TicketFor(sname, part) == [SName |-> sname, Realm |-> Realm, EncPart |-> part]
ServiceH == << <<72>> >>
ServiceHS == << <<72>>, <<83>> >>

\* replies for service "H": every combination of the three times
ArgsH ==
    AddArgs(ClientNames, {TicketFor(ServiceH, "tktA")}, {ZeroTime},
            Times, Times, Times, {"keyA"})
    \cup
    AddArgs(ClientNames, {TicketFor(ServiceH, "tktB")}, {ZeroTime},
            Times, Times, Times, {"keyB"})

\* replies for service "H/S": the authentication time and the session key vary
ArgsHS ==
    AddArgs(ClientNames, {TicketFor(ServiceHS, "tktA")}, {ZeroTime},
            {ZeroTime}, {MaxTime}, {MaxTime}, {"keyA"})
    \cup
    AddArgs(ClientNames, {TicketFor(ServiceHS, "tktA")}, {MaxTime},
            {ZeroTime}, {MaxTime}, {MaxTime}, {"keyB"})

Args == ArgsH \cup ArgsHS

NoEnc == [a |-> <<>>, b |-> <<>>, c |-> <<>>, d |-> <<>>,
          k1 |-> <<>>, k2 |-> <<>>, pc |-> "off"]

Init ==
    /\ Entries = NoEntries
    /\ readers = {}
    /\ writer = NoProc
    /\ now = ZeroTime
    /\ proc = [p \in Procs |-> IdleProc]
    /\ hist = [pr \in Pairs |-> <<>>]
    /\ enc = NoEnc

Next ==
    \/ \E cname \in CNameStrings, spn \in SPNStrings :
          \/ CallGetEntry(Main, cname, spn)
          \/ CallRemoveEntry(Main, cname, spn)
          \/ CallGetCachedTicket(Main, cname, spn)
    \/ \E a \in Args : CallAddEntry(Main, a)
    \/ CallClear(Main)
    \/ GetEntryRLock(Main)
    \/ GetEntryRead(Main)
    \/ AddEntryLock(Main)
    \/ AddEntryWrite(Main)
    \/ RemoveEntryLock(Main)
    \/ RemoveEntryDelete(Main)
    \/ ClearLock(Main)
    \/ \E k \in DOMAIN Entries : ClearDelete(Main, k)
    \/ ClearReturn(Main)
    \/ GetCachedTicketRLock(Main)
    \/ GetCachedTicketRead(Main)
    \/ GetCachedTicketAfter(Main)
    \/ GetCachedTicketBefore(Main)
    \/ GetCachedTicketRenewable(Main)
    \/ RenewExchange(Main)
    \/ \E err \in ExchangeErrors : ExchangeFail(Main, err)
    \/ ExchangeLock(Main)
    \/ \E a \in Args : ExchangeWrite(Main, a)
    \/ ExchangeNoWrite(Main)
    \/ RenewRLock(Main)
    \/ RenewRead(Main)
    \/ Return(Main)
    \/ Tick

Spec == Init /\ [][Next]_vars

-----------------------------------------------------------------------------
(* Concurrent callers: every caller runs any operation, on few entries *)

\* for service "H": an entry that has expired at time 1 and is renewable, and
\* one that is valid until MaxTime
ArgsConc ==
    AddArgs(ClientNames, {TicketFor(ServiceH, "tktA")}, {ZeroTime},
            {ZeroTime}, {1}, {MaxTime}, {"keyA"})
    \cup
    AddArgs(ClientNames, {TicketFor(ServiceH, "tktB")}, {ZeroTime},
            {ZeroTime}, {MaxTime}, {MaxTime}, {"keyB"})

NextConc ==
    \/ \E p \in Procs :
          \/ \E cname \in CNameStrings, spn \in SPNStrings :
                \/ CallGetEntry(p, cname, spn)
                \/ CallRemoveEntry(p, cname, spn)
                \/ CallGetCachedTicket(p, cname, spn)
          \/ \E a \in ArgsConc : CallAddEntry(p, a)
          \/ CallClear(p)
          \/ GetEntryRLock(p)
          \/ GetEntryRead(p)
          \/ AddEntryLock(p)
          \/ AddEntryWrite(p)
          \/ RemoveEntryLock(p)
          \/ RemoveEntryDelete(p)
          \/ ClearLock(p)
          \/ \E k \in DOMAIN Entries : ClearDelete(p, k)
          \/ ClearReturn(p)
          \/ GetCachedTicketRLock(p)
          \/ GetCachedTicketRead(p)
          \/ GetCachedTicketAfter(p)
          \/ GetCachedTicketBefore(p)
          \/ GetCachedTicketRenewable(p)
          \/ RenewExchange(p)
          \/ \E err \in ExchangeErrors : ExchangeFail(p, err)
          \/ ExchangeLock(p)
          \/ \E a \in ArgsConc : ExchangeWrite(p, a)
          \/ ExchangeNoWrite(p)
          \/ RenewRLock(p)
          \/ RenewRead(p)
          \/ Return(p)
    \/ Tick

SpecConc == Init /\ [][NextConc]_vars

\* Scheduling. A caller inside an operation of the cache keeps running, and
\* sync.RWMutex starves neither a reader nor a writer: a call of RLock or Lock
\* that can be granted again and again is granted. Nothing is assumed of the
\* callers' starting or ending operations, of the clock, or of the exchange,
\* which may never return; once the exchange is inside its own addEntry it
\* completes the write.
\* the steps of p that wait for nothing (at most one is enabled at a time)
Running(p) ==
    \/ GetEntryRead(p)
    \/ AddEntryWrite(p)
    \/ RemoveEntryDelete(p)
    \/ \E k \in DOMAIN Entries : ClearDelete(p, k)
    \/ ClearReturn(p)
    \/ GetCachedTicketRead(p)
    \/ GetCachedTicketAfter(p)
    \/ GetCachedTicketBefore(p)
    \/ GetCachedTicketRenewable(p)
    \/ RenewExchange(p)
    \/ \E a \in ArgsConc : ExchangeWrite(p, a)
    \/ RenewRead(p)

\* the steps of p that take the lock
Granted(p) ==
    \/ GetEntryRLock(p)
    \/ AddEntryLock(p)
    \/ RemoveEntryLock(p)
    \/ ClearLock(p)
    \/ GetCachedTicketRLock(p)
    \/ RenewRLock(p)

SpecLive ==
    /\ Init /\ [][NextConc]_vars
    /\ \A p \in Procs : WF_vars(Running(p)) /\ SF_vars(Granted(p))

-----------------------------------------------------------------------------
(* The store and its export: two callers, three pairs *)

ClientA == << <<65>> >>
ClientB == << <<66>> >>

\* (A, H) with two replies that differ in the ticket payload and the session
\* key only and one with another EndTime; (A, H/S) and (B, H) with one reply
ArgsJSON ==
    AddArgs({ClientA, ClientB}, {TicketFor(ServiceH, "tktA")}, {ZeroTime},
            {ZeroTime}, {MaxTime}, {MaxTime}, {"keyA"})
    \cup
    AddArgs({ClientA}, {TicketFor(ServiceH, "tktB")}, {ZeroTime},
            {ZeroTime}, {MaxTime}, {MaxTime}, {"keyB"})
    \cup
    AddArgs({ClientA}, {TicketFor(ServiceHS, "tktA")}, {ZeroTime},
            {ZeroTime}, {MaxTime}, {MaxTime}, {"keyA"})
    \cup
    AddArgs({ClientA}, {TicketFor(ServiceH, "tktA")}, {ZeroTime},
            {ZeroTime}, {ZeroTime}, {MaxTime}, {"keyA"})

NextJSON ==
    \E p \in Procs :
        \/ \E a \in ArgsJSON : CallAddEntry(p, a)
        \/ AddEntryLock(p)
        \/ AddEntryWrite(p)
        \/ \E cname \in {PrincipalNameString(ClientA), PrincipalNameString(ClientB)},
              spn \in SPNStrings :
                \/ CallRemoveEntry(p, cname, spn)
                \/ CallGetEntry(p, cname, spn)
        \/ RemoveEntryLock(p)
        \/ RemoveEntryDelete(p)
        \/ GetEntryRLock(p)
        \/ GetEntryRead(p)
        \/ CallClear(p)
        \/ ClearLock(p)
        \/ \E k \in DOMAIN Entries : ClearDelete(p, k)
        \/ ClearReturn(p)
        \/ CallJSON(p)
        \/ JSONRLock(p)
        \/ \E o \in RangeOrders(Entries) : JSONRange(p, o)
        \/ JSONMarshal(p)
        \/ Return(p)

SpecJSON == Init /\ [][NextJSON]_vars

-----------------------------------------------------------------------------
(* key() on its own: two pairs of strings are encoded and compared *)

\* the separator, the padding character and a letter of the base64 alphabet
KeyBytes == {Colon, StdPadding, 65}
StringsUpTo(n) == UNION { [1..m -> KeyBytes] : m \in 0..n }
KeyInputs ==
    { pr \in StringsUpTo(MaxKeyLen) \X StringsUpTo(MaxKeyLen) :
        Len(pr[1]) + Len(pr[2]) <= MaxKeyLen }

InitKey ==
    /\ Entries = NoEntries
    /\ readers = {}
    /\ writer = NoProc
    /\ now = ZeroTime
    /\ proc = [p \in Procs |-> IdleProc]
    /\ hist = [pr \in Pairs |-> <<>>]
    /\ \E x \in KeyInputs, y \in KeyInputs :
          enc = [a |-> x[1], b |-> x[2], c |-> y[1], d |-> y[2],
                 k1 |-> <<>>, k2 |-> <<>>, pc |-> "first"]

KeyFirst ==
    /\ enc.pc = "first"
    /\ enc' = [enc EXCEPT !.k1 = key(enc.a, enc.b), !.pc = "second"]
    /\ UNCHANGED <<Entries, readers, writer, now, proc, hist>>

KeySecond ==
    /\ enc.pc = "second"
    /\ enc' = [enc EXCEPT !.k2 = key(enc.c, enc.d), !.pc = "done"]
    /\ UNCHANGED <<Entries, readers, writer, now, proc, hist>>

NextKey == KeyFirst \/ KeySecond

SpecKey == InitKey /\ [][NextKey]_vars

-----------------------------------------------------------------------------
(* Properties *)

\* p has returned from GetCachedTicket
Resolved(p) == proc[p].op = "GetCachedTicket" /\ proc[p].pc = "done"

\* every clock value the call of p read lies strictly between lo and hi
ReadsWithin(p, lo, hi) ==
    \A i \in 1..Len(proc[p].reads) : lo < proc[p].reads[i] /\ proc[p].reads[i] < hi

\* no clock value the call of p read lies inside the validity window of e
NoReadInWindow(p, e) ==
    \A i \in 1..Len(proc[p].reads) :
        ~(e.StartTime < proc[p].reads[i] /\ proc[p].reads[i] < e.EndTime)

\* every clock value the call of p read is at or after t
ReadsFrom(p, t) == \A i \in 1..Len(proc[p].reads) : proc[p].reads[i] >= t

\* C1 - Validity window: a call that found entry e and read the clock only
\* strictly inside (e.StartTime, e.EndTime) returns e's ticket and session
\* key with usable = true and has made no exchange call.
C1_ValidityWindow ==
    \A p \in Procs :
        (/\ Resolved(p)
         /\ proc[p].ok
         /\ ReadsWithin(p, proc[p].e.StartTime, proc[p].e.EndTime))
        => /\ proc[p].ret = Result(proc[p].e.Ticket, proc[p].e.SessionKey, TRUE)
           /\ proc[p].nExch = 0

C1_Witness ==
    /\ Resolved(Main)
    /\ proc[Main].ok
    /\ Len(proc[Main].reads) = 2
    /\ ReadsWithin(Main, proc[Main].e.StartTime, proc[Main].e.EndTime)
    /\ proc[Main].ret.usable
    /\ proc[Main].ret.Ticket # ZeroTicket

\* C2 - Renewal trigger: a call that found entry e and read the clock only
\* strictly inside (e.EndTime, e.RenewTill) has called the exchange exactly
\* once; when the exchange succeeded and stored an entry for the pair of the
\* call with an EndTime after e.EndTime, the call returns the ticket and the
\* session key of that new entry with usable = true.
C2_RenewalTrigger ==
    \A p \in Procs :
        (/\ Resolved(p)
         /\ proc[p].ok
         /\ ReadsWithin(p, proc[p].e.EndTime, proc[p].e.RenewTill))
        => /\ proc[p].nExch = 1
           /\ (/\ proc[p].exErr = Nil
               /\ proc[p].wrote # <<>>
               /\ PairOf(proc[p].wrote[1]) = <<proc[p].cname, proc[p].spn>>
               /\ proc[p].wrote[1].endTime > proc[p].e.EndTime)
              => proc[p].ret = Result(proc[p].wrote[1].tkt,
                                      proc[p].wrote[1].sessionKey, TRUE)

C2_Witness ==
    /\ Resolved(Main)
    /\ proc[Main].ok
    /\ ReadsWithin(Main, proc[Main].e.EndTime, proc[Main].e.RenewTill)
    /\ proc[Main].nExch = 1
    /\ proc[Main].wrote # <<>>
    /\ PairOf(proc[Main].wrote[1]) = <<proc[Main].cname, proc[Main].spn>>
    /\ proc[Main].wrote[1].endTime > proc[Main].e.EndTime
    /\ proc[Main].ret.usable
    /\ proc[Main].ret.Ticket = proc[Main].wrote[1].tkt
    /\ proc[Main].ret.Ticket # proc[Main].e.Ticket
    /\ proc[Main].ret.SessionKey # proc[Main].e.SessionKey

\* C3 as stated - Renewal exhaustion: a call that found any entry e and read
\* the clock only at or after e.RenewTill returns the zero ticket and key with
\* usable = false and has made no exchange call.
C3_Original ==
    \A p \in Procs :
        (/\ Resolved(p)
         /\ proc[p].ok
         /\ ReadsFrom(p, proc[p].e.RenewTill))
        => /\ proc[p].ret = NotUsable
           /\ proc[p].nExch = 0

\* C3 as amended - Renewal exhaustion: a call that found entry e and read the
\* clock only at or after e.RenewTill and never strictly inside
\* (e.StartTime, e.EndTime) returns the zero ticket and key with
\* usable = false and has made no exchange call.
C3_RenewalExhaustion ==
    \A p \in Procs :
        (/\ Resolved(p)
         /\ proc[p].ok
         /\ ReadsFrom(p, proc[p].e.RenewTill)
         /\ NoReadInWindow(p, proc[p].e))
        => /\ proc[p].ret = NotUsable
           /\ proc[p].nExch = 0

C3_Witness ==
    /\ Resolved(Main)
    /\ proc[Main].ok
    /\ proc[Main].e.EndTime > proc[Main].e.RenewTill
    /\ ReadsFrom(Main, proc[Main].e.RenewTill)
    /\ NoReadInWindow(Main, proc[Main].e)
    /\ Len(proc[Main].reads) = 3
    /\ proc[Main].ret = NotUsable

\* C4 - Exchange failure: a call whose exchange returned an error returns the
\* ticket and the session key of the stale entry it found (not the zero
\* values) with usable = false, has called the exchange exactly once, and the
\* stale entry is still the cache's entry for the pair.
C4_ExchangeFailure ==
    \A p \in Procs :
        (/\ Resolved(p)
         /\ proc[p].nExch > 0
         /\ proc[p].exErr \in ExchangeErrors)
        => /\ proc[p].ok
           /\ proc[p].ret = Result(proc[p].e.Ticket, proc[p].e.SessionKey, FALSE)
           /\ proc[p].ret.Ticket # ZeroTicket
           /\ proc[p].ret.SessionKey # ZeroKey
           /\ proc[p].nExch = 1
           /\ Lookup(Entries, key(proc[p].cname, proc[p].spn)) = <<proc[p].e, TRUE>>

C4_Witness ==
    /\ Resolved(Main)
    /\ proc[Main].exErr \in ExchangeErrors
    /\ proc[Main].nExch = 1
    /\ ~proc[Main].ret.usable
    /\ proc[Main].ret.Ticket = proc[Main].e.Ticket
    /\ proc[Main].ret.Ticket # ZeroTicket
    /\ ~Before(proc[Main].tRet, proc[Main].e.EndTime)
    /\ Before(proc[Main].tRet, proc[Main].e.RenewTill)

\* C5 - Consistency violation: when the exchange returned nil and the second
\* lookup found no entry, renewTicket's error is not nil and is none of the
\* errors of an exchange failure, and GetCachedTicket returns usable = false.
C5_ConsistencyViolation ==
    \A p \in Procs :
        (/\ Resolved(p)
         /\ proc[p].nExch > 0
         /\ proc[p].exErr = Nil
         /\ ~proc[p].rok)
        => /\ proc[p].err # Nil
           /\ proc[p].err \notin ExchangeErrors
           /\ proc[p].err = ErrNotAdded
           /\ ~proc[p].ret.usable

C5_Witness ==
    /\ Resolved(Main)
    /\ proc[Main].nExch = 1
    /\ proc[Main].exErr = Nil
    /\ ~proc[Main].rok
    /\ key(proc[Main].cname, proc[Main].spn) \notin DOMAIN Entries
    /\ proc[Main].err = ErrNotAdded

\* C6 as stated - Failure propagation: from the returned triple the caller can
\* tell a failure (exchange failure, consistency violation) from the outcomes
\* 'pair not cached' and 'past RenewTill', which return the zero ticket, the
\* zero key and usable = false.
C6_FailuresReachCaller ==
    \A p \in Procs :
        (Resolved(p) /\ proc[p].err # Nil) => proc[p].ret # NotUsable

\* the entry whose ticket GetCachedTicket returned
Returned(p) == IF proc[p].nExch = 0 THEN proc[p].e ELSE proc[p].re

\* C7 as stated - Only a currently valid ticket is returned as usable: when
\* GetCachedTicket returns usable = true, the clock at the return lies strictly
\* between the StartTime and the EndTime of the entry whose ticket is returned.
C7_OnlyValidUsable ==
    \A p \in Procs :
        (Resolved(p) /\ proc[p].ret.usable)
        => /\ Returned(p).StartTime < proc[p].tRet
           /\ proc[p].tRet < Returned(p).EndTime

\* C8 - Key uniqueness: two different pairs of strings never get the same key.
C8_KeyInjective ==
    (enc.pc = "done" /\ <<enc.a, enc.b>> # <<enc.c, enc.d>>) => enc.k1 # enc.k2

\* "A:" with "" against "A" with ":": the raw strings joined by ':' collide
C8_Witness ==
    /\ enc.pc = "done"
    /\ enc.a = <<65, Colon>> /\ enc.b = <<>>
    /\ enc.c = <<65>> /\ enc.d = <<Colon>>
    /\ enc.k1 # enc.k2

\* the entry addEntry is to store for the arguments a
Stored(a) ==
    [CName |-> a.cname, SPN |-> PrincipalNameString(a.tkt.SName),
     Ticket |-> a.tkt, AuthTime |-> a.authTime, StartTime |-> a.startTime,
     EndTime |-> a.endTime, RenewTill |-> a.renewTill,
     SessionKey |-> a.sessionKey]

\* what getEntry is to report for the pair pr
Expected(pr) ==
    IF hist[pr] = <<>> THEN <<ZeroEntry, FALSE>>
    ELSE <<Stored(hist[pr][1]), TRUE>>

\* C9 - One entry per pair with full overwrite: the cache holds one entry for
\* each pair whose latest addEntry was not followed by a removal or clear and
\* no other entry; a lookup of a pair yields exactly the entry built from the
\* arguments of that latest addEntry; getEntry returns it and addEntry returns
\* the entry it stored.
C9_OneEntryPerPair ==
    /\ \A pr \in Pairs : Lookup(Entries, key(pr[1], pr[2])) = Expected(pr)
    /\ Cardinality(DOMAIN Entries) = Cardinality({pr \in Pairs : hist[pr] # <<>>})
    /\ \A p \in Procs :
          (proc[p].op = "getEntry" /\ proc[p].pc = "done")
          => <<proc[p].e, proc[p].ok>> = Expected(<<proc[p].cname, proc[p].spn>>)
    /\ \A p \in Procs :
          (proc[p].op = "addEntry" /\ proc[p].pc = "done")
          => /\ proc[p].e = Stored(proc[p].arg)
             /\ Lookup(Entries, proc[p].k) = <<proc[p].e, TRUE>>

\* an addEntry has replaced an entry that differed in ticket, key and times
C9_Witness ==
    /\ proc[Main].op = "addEntry" /\ proc[Main].pc = "done"
    /\ proc[Main].k \in DOMAIN proc[Main].m0
    /\ proc[Main].m0[proc[Main].k].Ticket # proc[Main].e.Ticket
    /\ proc[Main].m0[proc[Main].k].SessionKey # proc[Main].e.SessionKey
    /\ proc[Main].m0[proc[Main].k].StartTime # proc[Main].e.StartTime
    /\ proc[Main].m0[proc[Main].k].EndTime # proc[Main].e.EndTime
    /\ proc[Main].m0[proc[Main].k].RenewTill # proc[Main].e.RenewTill
    /\ Entries[proc[Main].k] = proc[Main].e
    /\ Cardinality(DOMAIN Entries) = 2

\* C10 - RemoveEntry: after RemoveEntry(cname, spn) the pair has no entry (a
\* lookup reports not found), whether it had one or not, and the entries of
\* all other keys are the ones the cache held before.
C10_RemoveEntryFrame ==
    \A p \in Procs :
        (proc[p].op = "RemoveEntry" /\ proc[p].pc = "done")
        => LET k == key(proc[p].cname, proc[p].spn)
           IN /\ ~Lookup(Entries, k)[2]
              /\ DOMAIN Entries = DOMAIN proc[p].m0 \ {k}
              /\ \A x \in DOMAIN Entries : Entries[x] = proc[p].m0[x]

C10_Witness ==
    /\ proc[Main].op = "RemoveEntry" /\ proc[Main].pc = "done"
    /\ key(proc[Main].cname, proc[Main].spn) \in DOMAIN proc[Main].m0
    /\ Cardinality(DOMAIN proc[Main].m0) = 2
    /\ Cardinality(DOMAIN Entries) = 1

JSONDone(p) == proc[p].op = "JSON" /\ proc[p].pc = "done"

\* the six fields of an entry that carry no secret
SixFields == {"CName", "SPN", "AuthTime", "StartTime", "EndTime", "RenewTill"}

\* C11 - JSON(): the export lists every entry of the cache exactly once, in
\* strictly ascending bytewise order of the encoded composite keys, whatever
\* the order in which the range loop met them; two exports of caches that
\* hold the same entries, however those were reached by addEntry and
\* RemoveEntry, are identical.
C11_OrderingDeterminism ==
    \A p \in Procs :
        JSONDone(p)
        => /\ Len(proc[p].keys) = Cardinality(DOMAIN proc[p].m0)
           /\ {proc[p].keys[i] : i \in 1..Len(proc[p].keys)} = DOMAIN proc[p].m0
           /\ \A i, j \in 1..Len(proc[p].keys) :
                 i < j => StrLess(proc[p].keys[i], proc[p].keys[j])
           /\ Len(proc[p].out) = Len(proc[p].keys)
           /\ \A i \in 1..Len(proc[p].out) :
                 \A f \in SixFields :
                     proc[p].out[i][f] = proc[p].m0[proc[p].keys[i]][f]
           /\ \A q \in Procs :
                 (JSONDone(q) /\ proc[q].m0 = proc[p].m0)
                 => proc[q].out = proc[p].out

\* two exports of the same three entries whose range loops met the keys in
\* different orders, neither of them the ascending one
C11_Witness ==
    /\ JSONDone("p1") /\ JSONDone("p2")
    /\ proc["p1"].m0 = proc["p2"].m0
    /\ Cardinality(DOMAIN proc["p1"].m0) = 3
    /\ proc["p1"].order # proc["p2"].order
    /\ proc["p1"].order # proc["p1"].keys
    /\ proc["p2"].order # proc["p2"].keys
    /\ proc["p1"].out = proc["p2"].out

\* the two maps hold the same keys and agree on the six fields of each entry
SameSixFields(m1, m2) ==
    /\ DOMAIN m1 = DOMAIN m2
    /\ \A k \in DOMAIN m1 : \A f \in SixFields : m1[k][f] = m2[k][f]

\* C12 - JSON(): the export does not depend on Ticket or SessionKey: two
\* exports of caches that agree on CName, SPN, AuthTime, StartTime, EndTime
\* and RenewTill of every entry are identical whatever the tickets and the
\* session keys are, and an exported entry has those six fields and no other.
C12_Redaction ==
    \A p \in Procs :
        JSONDone(p)
        => /\ \A i \in 1..Len(proc[p].out) : DOMAIN proc[p].out[i] = SixFields
           /\ \A q \in Procs :
                 (JSONDone(q) /\ SameSixFields(proc[p].m0, proc[q].m0))
                 => proc[q].out = proc[p].out

\* two identical exports of caches whose entry of one pair differs in the
\* ticket and in the session key
C12_Witness ==
    /\ JSONDone("p1") /\ JSONDone("p2")
    /\ SameSixFields(proc["p1"].m0, proc["p2"].m0)
    /\ \E k \in DOMAIN proc["p1"].m0 :
          /\ proc["p1"].m0[k].Ticket # proc["p2"].m0[k].Ticket
          /\ proc["p1"].m0[k].SessionKey # proc["p2"].m0[k].SessionKey
    /\ Cardinality(DOMAIN proc["p1"].m0) = 2
    /\ proc["p1"].out = proc["p2"].out

\* C13 - a caller inside the exchange call made by renewTicket holds neither
\* the read lock nor the write lock of the cache (while the exchange's own
\* addEntry writes, the write lock it holds is that addEntry's and the caller
\* still holds no read lock), so the exchange's write-back can take the write
\* lock whenever no other caller holds the lock.
C13_NoLockAcrossExchange ==
    \A p \in Procs :
        /\ proc[p].pc = "ex_run"
           => /\ p \notin readers
              /\ writer # p
              /\ (readers \subseteq {p} /\ writer \in {NoProc, p})
                 => ENABLED ExchangeLock(p)
        /\ proc[p].pc = "ex_write" => (p \notin readers /\ writer = p)

\* one caller's exchange writes back while the other caller is inside its own
\* exchange for the same pair
C13_Witness ==
    /\ proc["p1"].pc = "ex_run"
    /\ proc["p2"].pc = "ex_write"
    /\ writer = "p2"
    /\ proc["p1"].cname = proc["p2"].cname
    /\ proc["p1"].spn = proc["p2"].spn

\* the call of p read the clock at least once and only in [lo, hi)
ReadsIn(p, lo, hi) ==
    /\ proc[p].reads # <<>>
    /\ \A i \in 1..Len(proc[p].reads) :
          lo <= proc[p].reads[i] /\ proc[p].reads[i] < hi

\* C14 - no single-flight: every caller that found an entry e and read the
\* clock only in [e.EndTime, e.RenewTill) has made an exchange call of its
\* own, whatever another caller resolving the same pair is doing, so two
\* concurrent resolutions of one expired renewable pair make two exchanges.
C14_NoSingleFlight ==
    \A p \in Procs :
        (/\ Resolved(p)
         /\ proc[p].ok
         /\ ReadsIn(p, proc[p].e.EndTime, proc[p].e.RenewTill))
        => proc[p].nExch = 1

\* both callers found the same expired renewable entry of one pair and are
\* inside their exchange calls at the same time
C14_Witness ==
    /\ proc["p1"].pc = "ex_run" /\ proc["p2"].pc = "ex_run"
    /\ proc["p1"].cname = proc["p2"].cname
    /\ proc["p1"].spn = proc["p2"].spn
    /\ proc["p1"].e = proc["p2"].e
    /\ ReadsIn("p1", proc["p1"].e.EndTime, proc["p1"].e.RenewTill)
    /\ ReadsIn("p2", proc["p2"].e.EndTime, proc["p2"].e.RenewTill)
    /\ proc["p1"].nExch = 1 /\ proc["p2"].nExch = 1

\* the exchange of the call of p returned nil after it stored an entry for the
\* pair of the call
ExchangeStored(p) ==
    /\ Resolved(p)
    /\ proc[p].nExch = 1
    /\ proc[p].exErr = Nil
    /\ proc[p].wrote # <<>>
    /\ PairOf(proc[p].wrote[1]) = <<proc[p].cname, proc[p].spn>>

\* C15 as stated - under every interleaving with addEntry, RemoveEntry and
\* clear of other callers, a call whose exchange succeeded and stored an entry
\* for the pair returns a ticket with usable = true and never the error
\* "ticket was not added to cache".
C15_Original ==
    \A p \in Procs :
        ExchangeStored(p)
        => /\ proc[p].ret.usable
           /\ proc[p].ret.Ticket # ZeroTicket
           /\ proc[p].err # ErrNotAdded

\* C15 - a call whose exchange succeeded and stored an entry for the pair,
\* and during which no RemoveEntry or clear of another caller deleted the
\* entry of the pair between the return of the exchange and the re-read,
\* returns with usable = true and no error the ticket and the session key of
\* the entry the re-read found, which is the one the exchange stored or one a
\* concurrent addEntry stored over it.
C15_ConsistencyOnlyWithoutEntry ==
    \A p \in Procs :
        (ExchangeStored(p) /\ ~proc[p].removed)
        => /\ proc[p].rok
           /\ proc[p].err = Nil
           /\ proc[p].ret = Result(proc[p].re.Ticket, proc[p].re.SessionKey, TRUE)
           /\ \E a \in ArgsConc :
                 /\ proc[p].re = Stored(a)
                 /\ PairOf(a) = <<proc[p].cname, proc[p].spn>>

\* the exchange stored an entry, another caller's addEntry replaced it before
\* the re-read, and the call returns the ticket of the replacement
C15_Witness ==
    /\ ExchangeStored("p1")
    /\ ~proc["p1"].removed
    /\ proc["p1"].err = Nil
    /\ proc["p1"].ret.usable
    /\ proc["p1"].ret.Ticket # proc["p1"].wrote[1].tkt
    /\ proc["p2"].op = "addEntry" /\ proc["p2"].pc = "done"

\* the clock value the last test of the call of p read
LastRead(p) == proc[p].reads[Len(proc[p].reads)]

\* C16 - a call that has invoked the exchange for the entry e it found read,
\* in the test that sent it to the renewal, a clock value in
\* [e.EndTime, e.RenewTill); in particular a value at or before e.StartTime
\* of an entry that is not yet valid never leads to the exchange.
C16_RenewalOnlyWhenExpired ==
    \A p \in Procs :
        (proc[p].op = "GetCachedTicket" /\ proc[p].nExch > 0)
        => /\ proc[p].e.EndTime <= LastRead(p)
           /\ LastRead(p) < proc[p].e.RenewTill
           /\ ~(LastRead(p) <= proc[p].e.StartTime /\ LastRead(p) < proc[p].e.EndTime)

\* the positions at which a caller reads, and writes, the map
ReadPcs == {"get_read", "gct_read", "rn_read", "json_range", "json_sort"}
WritePcs == {"add_write", "rm_delete", "clr_delete", "ex_write"}

\* C17 - the callers that write the map are the holder of the write lock, so
\* at most one, and then no caller reads it; the callers that read it hold the
\* read lock. Hence a getEntry that finds an entry returns, in all its fields,
\* the entry built from the arguments of one addEntry for that pair, and
\* JSON reads the map only while no clear is inside its delete loop: every
\* entry it exports is a whole entry of one addEntry under its own key.
C17_RaceFreeReads ==
    /\ \A p \in Procs : proc[p].pc \in WritePcs <=> writer = p
    /\ \A p \in Procs : proc[p].pc \in ReadPcs <=> p \in readers
    /\ writer # NoProc => readers = {}
    /\ \A p, q \in Procs :
          proc[p].pc \in {"json_range", "json_sort"} => proc[q].pc # "clr_delete"
    /\ \A p \in Procs :
          (proc[p].op = "getEntry" /\ proc[p].pc = "done" /\ proc[p].ok)
          => \E a \in ArgsJSON :
                /\ proc[p].e = Stored(a)
                /\ PairOf(a) = <<proc[p].cname, proc[p].spn>>
    /\ \A p \in Procs :
          JSONDone(p)
          => \A k \in DOMAIN proc[p].m0 :
                \E a \in ArgsJSON : proc[p].m0[k] = Stored(a) /\ k = addKey(a)

\* a clear has deleted one of three entries and holds the write lock while
\* the other caller's JSON waits for the read lock
C17_Witness ==
    /\ proc["p1"].pc = "clr_delete"
    /\ writer = "p1"
    /\ Cardinality(DOMAIN proc["p1"].m0) = 3
    /\ Cardinality(DOMAIN Entries) = 2
    /\ proc["p2"].pc = "json_rlock"

C19_ResolutionWritesNothing ==
    [][(proc[Main].op = "GetCachedTicket" /\ proc[Main].pc # "ex_write")
       => Entries' = Entries]_vars

\* a resolution found an entry past its RenewTill, returned usable = false
\* without an exchange call, and the entry is still stored
C19_Witness ==
    /\ Resolved(Main)
    /\ proc[Main].ok
    /\ proc[Main].nExch = 0
    /\ proc[Main].ret = NotUsable
    /\ ReadsFrom(Main, proc[Main].e.RenewTill)
    /\ Lookup(Entries, key(proc[Main].cname, proc[Main].spn)) = <<proc[Main].e, TRUE>>

\* C20 - every entry e stored under key k has k = key(string form of e.CName,
\* e.SPN) and e.SPN = string form of e.Ticket.SName; so the key that the
\* re-read of renewTicket builds from the entry found by the first lookup is
\* the key of that first lookup.
C20_StoredKeyConsistency ==
    /\ \A k \in DOMAIN Entries :
          /\ k = key(PrincipalNameString(Entries[k].CName), Entries[k].SPN)
          /\ Entries[k].SPN = PrincipalNameString(Entries[k].Ticket.SName)
    /\ \A p \in Procs :
          proc[p].pc \in {"rn_exchange", "ex_run", "ex_write", "rn_rlock", "rn_read"}
          => key(PrincipalNameString(proc[p].re.CName),
                 PrincipalNameString(proc[p].re.Ticket.SName))
             = key(proc[p].cname, proc[p].spn)

\* the re-read of a renewal is about to look up a pair whose service name
\* has two components, with two entries stored
C20_Witness ==
    /\ proc[Main].pc = "rn_read"
    /\ Len(proc[Main].re.Ticket.SName) = 2
    /\ Cardinality(DOMAIN Entries) = 2

=============================================================================
